---- MODULE Spec2Model ----
(***************************************************************************)
(* Model of alert_injector.py: the AlertInjector push loops, the           *)
(* AlertVerifier polling operations and the command-line dispatcher main.  *)
(* Time is the integer number of seconds read by time.time(); an HTTP      *)
(* request takes a nondeterministic number of seconds and answers with a   *)
(* nondeterministic status or raises a transport error.                    *)
(***************************************************************************)
EXTENDS Integers, Sequences, FiniteSets, TLC

\* ---------------------------------------------------------------- bounds
MaxDuration == 2
MaxLatency == 1
MaxTimeout == 11
MaxAlerts == 2

\* ------------------------------------------------------ program constants
PushInterval == 15
PollInterval == 5
SecondsPerMinute == 60
ExitUsage == 2
ExitInterrupted == 130

\* ------------------------------------------------------------ input sets
Services == {"test-service", "api"}
ResourceTypes == {"memory", "cpu", "disk"}
Durations == -1..MaxDuration
Latencies == {0, MaxLatency}
Timeouts == {-1, 0, PollInterval, PollInterval + 1, MaxTimeout}
StartTimes == {0, 3}
Statuses == {200, 202, 404, 500}
InjectOps == {"inject_high_error_rate", "inject_high_latency", "inject_resource_exhaustion"}
Subcommands == {"inject-error-rate", "inject-latency", "inject-resource-exhaustion", "clear", "wait-for-alert"}
Argv0 == Subcommands \cup {"", "bogus"}
DefaultPushgatewayUrl == "http://pushgateway:9091"
DefaultAlertmanagerUrl == "http://alertmanager:9093"
AlertNames == {"HighErrorRate", "HighLatency"}
Severities == {"critical", "warning"}
None == "None"
Failures == {"ConnectionError", "HTTPError", "JSONDecodeError"}

\* label maps of an alert record: alertname always present, severity optional
LabelMaps ==
  [alertname : AlertNames] \cup [alertname : {"HighErrorRate"}, severity : {"critical"}]

\* alert records served by GET /api/v2/alerts
AlertRecords == [status : [state : {"active", "suppressed"}], labels : LabelMaps]

RECURSIVE SeqsUpTo(_, _)
SeqsUpTo(S, n) ==
  IF n = 0 THEN {<<>>}
  ELSE LET shorter == SeqsUpTo(S, n - 1)
       IN shorter \cup {Append(q, x) : q \in {r \in shorter : Len(r) = n - 1}, x \in S}

\* what one GET of the alert endpoint produces: the exception raised by the GET,
\* raise_for_status or json(), or the parsed JSON array
Responses ==
  [error : Failures, body : {<<>>}] \cup [error : {"none"}, body : SeqsUpTo(AlertRecords, MaxAlerts)]

\* expected_labels dictionaries, as key/value pairs in iteration order
ExpectedPairs ==
  {<<"alertname", n>> : n \in AlertNames} \cup {<<"severity", v>> : v \in Severities}
ExpectedLabels ==
  {e \in SeqsUpTo(ExpectedPairs, 2) : \A i, j \in 1..Len(e) : i # j => e[i][1] # e[j][1]}


VARIABLES pc, op, viaMain, command, service, resource_type, duration_minutes,
          timeout, alert_name, expected_labels,
          now, start_time, end_time, reqs, pushes, lastPushAt, sleeps, lat,
          okResponses, badResponses, errors, metrics_injected,
          polls, lastPollAt, failedPolls, response, alerts, deletes,
          result, exit_code

\* arguments of the running operation
argVars == <<op, viaMain, command, service, resource_type, duration_minutes,
             timeout, alert_name, expected_labels>>
\* history of the pushes of an inject loop and of the statuses received
pushVars == <<pushes, lastPushAt, okResponses, badResponses, errors, metrics_injected>>
\* history of the polls of the verifier
pollVars == <<polls, lastPollAt, failedPolls, response, alerts>>

vars == <<pc, argVars, now, start_time, end_time, reqs, sleeps, lat, pushVars,
          pollVars, deletes, result, exit_code>>

\* f"{self.pushgateway_url}/metrics/job/alert_test/instance/{service}"
PushUrl(base, svc) == <<base, "metrics", "job", "alert_test", "instance", svc>>

\* f"{self.alertmanager_url}/api/v2/alerts"
AlertsUrl(base) == <<base, "api", "v2", "alerts">>

\* slip: only 200 counts as success
StatusOk_Only200(status) == status = 200

\* response.status_code in [200, 202]
StatusOk(status) == status \in {200, 202}

\* main: return 0 if success else 1 / except KeyboardInterrupt / except Exception
ExitCodeOf(outcome) ==
  CASE outcome = "True" -> 0
    [] outcome = "False" -> 1
    [] outcome = "KeyboardInterrupt" -> ExitInterrupted
    [] outcome = "Exception" -> 1

Init ==
  /\ pc = "idle"
  /\ op = "none"
  /\ viaMain = FALSE
  /\ command = "none"
  /\ service = "none"
  /\ resource_type = "none"
  /\ duration_minutes = 0
  /\ timeout = 0
  /\ alert_name = "none"
  /\ expected_labels = <<>>
  /\ now \in StartTimes
  /\ start_time = 0
  /\ end_time = 0
  /\ reqs = {}
  /\ pushes = 0
  /\ lastPushAt = -1
  /\ sleeps = 0
  /\ lat = 0
  /\ okResponses = 0
  /\ badResponses = 0
  /\ errors = 0
  /\ metrics_injected = 0
  /\ polls = 0
  /\ lastPollAt = -1
  /\ response = [error |-> "none", body |-> <<>>]
  /\ alerts = <<>>
  /\ failedPolls = 0
  /\ deletes = 0
  /\ result = "none"
  /\ exit_code = -1

\* a method returns (or raises) outcome; under main the outcome becomes the exit code
Return(outcome) ==
  /\ pc' = "done"
  /\ result' = outcome
  /\ exit_code' = IF viaMain THEN ExitCodeOf(outcome) ELSE -1

\* slip: <= in the loop condition
InjectLoopCond_Inclusive(t, e) == t <= e

\* while time.time() < end_time
InjectLoopCond(t, e) == t < e

\* slip: <= in the loop condition
WaitLoopCond_Inclusive(t, s, limit) == t - s <= limit

\* while time.time() - start_time < timeout
WaitLoopCond(t, s, limit) == t - s < limit

\* labels.get(key)
LabelGet(labels, key) == IF key \in DOMAIN labels THEN labels[key] ELSE None

\* slip: the state filter is dropped
ActiveOnly_NoFilter(as) == as

\* [a for a in alerts if a.get('status', {}).get('state') == 'active']
ActiveOnly(as) == SelectSeq(as, LAMBDA a : a.status.state = "active")

\* get_active_alerts: the filtered array, or [] when the GET, raise_for_status or json() raised
GetActiveAlerts(r) == IF r.error \in Failures THEN <<>> ELSE ActiveOnly(r.body)

\* for alert in alerts: if alert.get('labels', {}).get('alertname') == alert_name
RECURSIVE FirstMatch(_, _, _)
FirstMatch(as, name, i) ==
  IF i > Len(as) THEN 0
  ELSE IF LabelGet(as[i].labels, "alertname") = name THEN i
  ELSE FirstMatch(as, name, i + 1)

\* for key, expected_value in expected_labels.items(): if actual_value != expected_value
RECURSIVE FirstMismatch(_, _, _)
FirstMismatch(labels, expected, i) ==
  IF i > Len(expected) THEN 0
  ELSE IF LabelGet(labels, expected[i][1]) # expected[i][2] THEN i
  ELSE FirstMismatch(labels, expected, i + 1)

\* slip: a mismatch does not return, the loop goes on to the next matching alert
VerifyAlertLabels_AnyAlert(as, name, expected) ==
  IF \E i \in 1..Len(as) : /\ LabelGet(as[i].labels, "alertname") = name
                            /\ FirstMismatch(as[i].labels, expected, 1) = 0
  THEN "True" ELSE "False"

\* verify_alert_labels on the result of get_active_alerts
VerifyAlertLabels(as, name, expected) ==
  LET i == FirstMatch(as, name, 1)
  IN IF i = 0 THEN "False"
     ELSE IF FirstMismatch(as[i].labels, expected, 1) # 0 THEN "False"
     ELSE "True"

\* the method main selects for a sub-command
MethodOf(cmd) ==
  CASE cmd = "inject-error-rate" -> "inject_high_error_rate"
    [] cmd = "inject-latency" -> "inject_high_latency"
    [] cmd = "inject-resource-exhaustion" -> "inject_resource_exhaustion"
    [] cmd = "clear" -> "clear_injected_metrics"
    [] cmd = "wait-for-alert" -> "wait_for_alert"
    [] OTHER -> "unknown"

\* parser.parse_args(): argparse exits with status 2 on a sub-command that is
\* not a registered sub-parser and on a --resource outside choices
ParseArgs(cmd, rt) ==
  IF cmd # "" /\ cmd \notin Subcommands THEN "SystemExit"
  ELSE IF cmd = "inject-resource-exhaustion" /\ rt \notin {"memory", "cpu"} THEN "SystemExit"
  ELSE "ok"

\* first program point of each method
EntryPc(o) ==
  CASE o \in InjectOps -> "inject_loop"
    [] o = "clear_injected_metrics" -> "clear"
    [] o = "wait_for_alert" -> "wait_loop"
    [] o = "verify_alert_labels" -> "verify"

\* a method is entered with its arguments; the loops read start_time = time.time()
Enter(o, cmd, m, svc, rt, d, t, name, expected) ==
  /\ pc = "idle"
  /\ op' = o
  /\ command' = cmd
  /\ viaMain' = m
  /\ service' = svc
  /\ resource_type' = rt
  /\ duration_minutes' = d
  /\ timeout' = t
  /\ alert_name' = name
  /\ expected_labels' = expected
  /\ start_time' = now
  /\ end_time' = IF o \in InjectOps THEN now + d * SecondsPerMinute ELSE 0
  /\ pc' = EntryPc(o)
  /\ UNCHANGED <<now, reqs, sleeps, lat, pushVars, pollVars, deletes, result, exit_code>>

\* a caller invokes an inject method of AlertInjector directly
CallInject ==
  \E o \in InjectOps, svc \in Services, rt \in ResourceTypes, d \in Durations :
    /\ (o # "inject_resource_exhaustion" => rt = "memory")
    /\ Enter(o, "none", FALSE, svc, rt, d, 0, "none", <<>>)

\* a caller invokes clear_injected_metrics directly
CallClear ==
  \E svc \in Services :
    Enter("clear_injected_metrics", "none", FALSE, svc, "none", 0, 0, "none", <<>>)

\* a caller invokes wait_for_alert directly
CallWait ==
  \E name \in AlertNames, t \in Timeouts :
    Enter("wait_for_alert", "none", FALSE, "none", "none", 0, t, name, <<>>)

\* a caller invokes verify_alert_labels directly
CallVerify ==
  \E name \in AlertNames, expected \in ExpectedLabels :
    Enter("verify_alert_labels", "none", FALSE, "none", "none", 0, 0, name, expected)

\* main up to the call of the selected method
Main ==
  /\ pc = "idle"
  /\ \E cmd \in Argv0, svc \in Services, rt \in ResourceTypes, d \in Durations,
        t \in Timeouts, name \in AlertNames :
       /\ (cmd \notin {"inject-error-rate", "inject-latency", "inject-resource-exhaustion"} => d = 0)
       /\ (cmd # "inject-resource-exhaustion" => rt = "memory")
       /\ (cmd # "wait-for-alert" => t = 0 /\ name = "HighErrorRate")
       /\ (cmd \in {"wait-for-alert", "", "bogus"} => svc = "test-service")
       /\ IF ParseArgs(cmd, rt) = "SystemExit"
          THEN /\ pc' = "done"
               /\ command' = cmd
               /\ viaMain' = TRUE
               /\ result' = "SystemExit"
               /\ exit_code' = ExitUsage
               /\ UNCHANGED <<op, service, resource_type, duration_minutes, timeout,
                              alert_name, expected_labels, now, start_time, end_time,
                              reqs, sleeps, lat, pushVars, pollVars, deletes>>
          ELSE IF cmd = "" \/ MethodOf(cmd) = "unknown"
          THEN /\ pc' = "done"
               /\ command' = cmd
               /\ viaMain' = TRUE
               /\ exit_code' = 1
               /\ UNCHANGED <<op, service, resource_type, duration_minutes, timeout,
                              alert_name, expected_labels, now, start_time, end_time,
                              reqs, sleeps, lat, pushVars, pollVars, deletes, result>>
          ELSE Enter(MethodOf(cmd), cmd, TRUE,
                     IF cmd = "wait-for-alert" THEN "none" ELSE svc,
                     IF cmd = "inject-resource-exhaustion" THEN rt
                     ELSE IF MethodOf(cmd) \in InjectOps THEN "memory" ELSE "none",
                     d, t, IF cmd = "wait-for-alert" THEN name ELSE "none", <<>>)

\* Ctrl-C while a method runs: KeyboardInterrupt is not an Exception, no method catches it
Interrupt ==
  /\ pc \notin {"idle", "done"}
  /\ Return("KeyboardInterrupt")
  /\ UNCHANGED <<argVars, now, start_time, end_time, reqs, sleeps, lat, pushVars,
                 pollVars, deletes>>

\* a response with this status code arrives: okResponses counts the statuses 200 and 202
\* received so far, badResponses every other status
Received(status) ==
  /\ okResponses' = okResponses + (IF status = 200 \/ status = 202 THEN 1 ELSE 0)
  /\ badResponses' = badResponses + (IF status = 200 \/ status = 202 THEN 0 ELSE 1)

\* the POST of one loop iteration is sent
PostSent(l) ==
  /\ reqs' = reqs \cup {[method |-> "POST", url |-> PushUrl(DefaultPushgatewayUrl, service)]}
  /\ pushes' = pushes + 1
  /\ lastPushAt' = now
  /\ now' = now + l
  /\ lat' = lat + l

\* loop body of inject_resource_exhaustion reaching the else branch: unknown resource type
InjectUnknownResource ==
  /\ pc = "inject_loop"
  /\ InjectLoopCond(now, end_time)
  /\ op = "inject_resource_exhaustion"
  /\ resource_type \notin {"memory", "cpu"}
  /\ Return("False")
  /\ UNCHANGED <<argVars, now, start_time, end_time, reqs, sleeps, lat, pushVars,
                 pollVars, deletes>>

\* slip: a status other than 200/202 returns False
InjectPush_AbortOnBad ==
  /\ pc = "inject_loop"
  /\ InjectLoopCond(now, end_time)
  /\ (op = "inject_resource_exhaustion" => resource_type \in {"memory", "cpu"})
  /\ \E status \in Statuses, l \in Latencies :
       /\ PostSent(l)
       /\ Received(status)
       /\ metrics_injected' = IF op = "inject_high_error_rate" /\ StatusOk(status)
                              THEN metrics_injected + 1 ELSE metrics_injected
       /\ IF StatusOk(status)
          THEN pc' = "inject_sleep" /\ UNCHANGED <<result, exit_code>>
          ELSE Return("False")
  /\ UNCHANGED <<argVars, start_time, end_time, sleeps, errors, pollVars, deletes>>

\* requests.post answered with a status code
InjectPush ==
  /\ pc = "inject_loop"
  /\ InjectLoopCond(now, end_time)
  /\ (op = "inject_resource_exhaustion" => resource_type \in {"memory", "cpu"})
  /\ \E status \in Statuses, l \in Latencies :
       /\ PostSent(l)
       /\ Received(status)
       /\ metrics_injected' = IF op = "inject_high_error_rate" /\ StatusOk(status)
                              THEN metrics_injected + 1 ELSE metrics_injected
  /\ pc' = "inject_sleep"
  /\ UNCHANGED <<argVars, start_time, end_time, sleeps, errors, pollVars, deletes,
                 result, exit_code>>

\* slip: the except branch logs and falls through to the sleep
InjectPushError_Retry ==
  /\ pc = "inject_loop"
  /\ InjectLoopCond(now, end_time)
  /\ (op = "inject_resource_exhaustion" => resource_type \in {"memory", "cpu"})
  /\ \E l \in Latencies : PostSent(l)
  /\ errors' = errors + 1
  /\ pc' = "inject_sleep"
  /\ UNCHANGED <<argVars, start_time, end_time, sleeps, okResponses, badResponses,
                 metrics_injected, pollVars, deletes, result, exit_code>>

\* requests.post raises: except Exception -> return False
InjectPushError ==
  /\ pc = "inject_loop"
  /\ InjectLoopCond(now, end_time)
  /\ (op = "inject_resource_exhaustion" => resource_type \in {"memory", "cpu"})
  /\ \E l \in Latencies : PostSent(l)
  /\ errors' = errors + 1
  /\ Return("False")
  /\ UNCHANGED <<argVars, start_time, end_time, sleeps, okResponses, badResponses,
                 metrics_injected, pollVars, deletes>>

\* time.sleep(15)
InjectSleep ==
  /\ pc = "inject_sleep"
  /\ now' = now + PushInterval
  /\ sleeps' = sleeps + 1
  /\ pc' = "inject_loop"
  /\ UNCHANGED <<argVars, start_time, end_time, reqs, lat, pushVars, pollVars,
                 deletes, result, exit_code>>

\* the while condition fails: return True
InjectReturn ==
  /\ pc = "inject_loop"
  /\ ~InjectLoopCond(now, end_time)
  /\ Return("True")
  /\ UNCHANGED <<argVars, now, start_time, end_time, reqs, sleeps, lat, pushVars,
                 pollVars, deletes>>

\* the DELETE of clear_injected_metrics is sent
DeleteSent(l) ==
  /\ reqs' = reqs \cup {[method |-> "DELETE", url |-> PushUrl(DefaultPushgatewayUrl, service)]}
  /\ deletes' = deletes + 1
  /\ now' = now + l
  /\ lat' = lat + l

\* clear_injected_metrics: requests.delete answered with a status code
Clear ==
  /\ pc = "clear"
  /\ \E status \in Statuses, l \in Latencies :
       /\ DeleteSent(l)
       /\ Received(status)
       /\ Return(IF StatusOk(status) THEN "True" ELSE "False")
  /\ UNCHANGED <<argVars, start_time, end_time, sleeps, pushes, lastPushAt, errors,
                 metrics_injected, pollVars>>

\* clear_injected_metrics: requests.delete raises: except Exception -> return False
ClearError ==
  /\ pc = "clear"
  /\ \E l \in Latencies : DeleteSent(l)
  /\ errors' = errors + 1
  /\ Return("False")
  /\ UNCHANGED <<argVars, start_time, end_time, sleeps, pushes, lastPushAt,
                 okResponses, badResponses, metrics_injected, pollVars>>

\* the GET of get_active_alerts is sent and answered with r
GetSent(r, l) ==
  /\ reqs' = reqs \cup {[method |-> "GET", url |-> AlertsUrl(DefaultAlertmanagerUrl)]}
  /\ polls' = polls + 1
  /\ lastPollAt' = now
  /\ now' = now + l
  /\ lat' = lat + l
  /\ failedPolls' = failedPolls + (IF r.error \in Failures THEN 1 ELSE 0)
  /\ response' = r
  /\ alerts' = GetActiveAlerts(r)

\* one iteration of wait_for_alert: poll, then return True on a match
WaitPoll ==
  /\ pc = "wait_loop"
  /\ WaitLoopCond(now, start_time, timeout)
  /\ \E r \in Responses, l \in Latencies :
       /\ GetSent(r, l)
       /\ IF FirstMatch(GetActiveAlerts(r), alert_name, 1) # 0
          THEN Return("True")
          ELSE /\ pc' = "wait_sleep"
               /\ UNCHANGED <<result, exit_code>>
  /\ UNCHANGED <<argVars, start_time, end_time, sleeps, pushVars, deletes>>

\* time.sleep(5)
WaitSleep ==
  /\ pc = "wait_sleep"
  /\ now' = now + PollInterval
  /\ sleeps' = sleeps + 1
  /\ pc' = "wait_loop"
  /\ UNCHANGED <<argVars, start_time, end_time, reqs, lat, pushVars, pollVars,
                 deletes, result, exit_code>>

\* the while condition fails: return False
WaitTimeout ==
  /\ pc = "wait_loop"
  /\ ~WaitLoopCond(now, start_time, timeout)
  /\ Return("False")
  /\ UNCHANGED <<argVars, now, start_time, end_time, reqs, sleeps, lat, pushVars,
                 pollVars, deletes>>

\* verify_alert_labels: one get_active_alerts, then the label comparison
Verify ==
  /\ pc = "verify"
  /\ \E r \in Responses, l \in Latencies :
       /\ GetSent(r, l)
       /\ Return(VerifyAlertLabels(GetActiveAlerts(r), alert_name, expected_labels))
  /\ UNCHANGED <<argVars, start_time, end_time, sleeps, pushVars, deletes>>

Next ==
  \/ CallInject
  \/ CallClear
  \/ CallWait
  \/ CallVerify
  \/ Main
  \/ Interrupt
  \/ InjectUnknownResource
  \/ InjectPush
  \/ InjectPushError
  \/ InjectSleep
  \/ InjectReturn
  \/ Clear
  \/ ClearError
  \/ WaitPoll
  \/ WaitSleep
  \/ WaitTimeout
  \/ Verify

Spec == Init /\ [][Next]_vars

\* an inject method called directly and run to its return
InjectNext ==
  \/ CallInject
  \/ InjectUnknownResource
  \/ InjectPush
  \/ InjectPushError
  \/ InjectSleep
  \/ InjectReturn

\* the interpreter keeps executing the method: while a step is possible one is taken
InjectSpec == Init /\ [][InjectNext]_vars /\ WF_vars(InjectNext)

\* ------------------------------------------------------------ properties

\* the operation returned a boolean (it was not interrupted)
Returned == pc = "done" /\ result \in {"True", "False"}

ValidResource == op = "inject_resource_exhaustion" => resource_type \in {"memory", "cpu"}

ThePushUrl == [method |-> "POST", url |-> <<DefaultPushgatewayUrl, "metrics", "job", "alert_test", "instance", service>>]
TheDeleteUrl == [method |-> "DELETE", url |-> <<DefaultPushgatewayUrl, "metrics", "job", "alert_test", "instance", service>>]

\* C1: for durationMinutes > 0 an inject operation returns true if and only if
\* every push received status 200 or 202 and no transport error occurred.
C1_TrueIffEveryPushOk ==
  (Returned /\ op \in InjectOps /\ ValidResource /\ duration_minutes > 0)
    => (result = "True" <=> (badResponses = 0 /\ errors = 0))

\* C2: injectResourceExhaustion with a resourceType other than memory and cpu
\* sends no push request and returns false, for every durationMinutes.
C2_UnknownResourceReturnsFalse ==
  (Returned /\ op = "inject_resource_exhaustion" /\ resource_type \notin {"memory", "cpu"})
    => (pushes = 0 /\ reqs = {} /\ result = "False")

\* C3: in an inject operation the first push that raises a transport error is
\* the last request: the operation returns false at once, with no sleep, retry
\* or further push after it, whatever the earlier outcomes were.
C3_TransportErrorAborts ==
  /\ []((op \in InjectOps /\ errors > 0)
          => (pc = "done" /\ result = "False" /\ errors = 1 /\ sleeps = pushes - 1))
  /\ [][(op \in InjectOps /\ errors > 0)
          => (pushes' = pushes /\ sleeps' = sleeps /\ reqs' = reqs /\ now' = now)]_vars

C3_Witness ==
  /\ op \in InjectOps /\ errors = 1 /\ pushes >= 3
  /\ okResponses >= 1 /\ badResponses >= 1 /\ result = "False"

\* the polled response holds an active alert named n
ContainsActive(r, n) ==
  /\ r.error = "none"
  /\ \E i \in 1..Len(r.body) : /\ r.body[i].status.state = "active"
                               /\ "alertname" \in DOMAIN r.body[i].labels
                               /\ r.body[i].labels.alertname = n

\* C4: waitForAlert polls every 5 seconds, returns true in the first polling
\* cycle whose result holds an active alert of that name and polls no more,
\* returns false when no such alert was seen within the timeout, and never
\* starts a poll once timeout seconds have elapsed.
C4_WaitForAlert ==
  /\ [](op = "wait_for_alert" =>
         /\ (polls > 0 => lastPollAt - start_time < timeout)
         /\ (polls > 0 /\ ContainsActive(response, alert_name)
               => pc = "done" /\ result = "True")
         /\ (result = "True" => polls > 0 /\ ContainsActive(response, alert_name))
         /\ (result = "False" => now - start_time >= timeout)
         /\ (pc \in {"wait_loop", "wait_sleep"} => now = start_time + PollInterval * sleeps + lat)
         /\ (pc = "wait_loop" => sleeps = polls)
         /\ (pc = "wait_sleep" => sleeps = polls - 1))
  /\ [][(op = "wait_for_alert" /\ result = "True") => polls' = polls]_vars

C4_Witness ==
  /\ op = "wait_for_alert" /\ result = "True" /\ polls = 3 /\ sleeps = 2
  /\ timeout = MaxTimeout

\* C5: clearInjectedMetrics issues exactly one DELETE to the per-service push
\* path and returns true if and only if its status is 200 or 202; it returns
\* false for every other status and on a transport error.
C5_ClearOneDelete ==
  (Returned /\ op = "clear_injected_metrics")
    => /\ deletes = 1
       /\ reqs = {TheDeleteUrl}
       /\ okResponses + badResponses + errors = 1
       /\ (result = "True" <=> okResponses = 1)

C5_Witness ==
  /\ Returned /\ op = "clear_injected_metrics" /\ result = "True"
  /\ service = "api" /\ viaMain

\* C6: the exit code is 0 exactly when the operation returned true; 1 when it
\* returned false, when no sub-command was given or when the sub-command is
\* unknown; 130 on a user interrupt during the operation; and nothing else.
C6_ExitCodes ==
  (viaMain /\ pc = "done")
    => /\ (exit_code = 0 <=> result = "True")
       /\ (result = "False" => exit_code = 1)
       /\ (command = "" => exit_code = 1)
       /\ (command \notin Subcommands \cup {""} => exit_code = 1)
       /\ (result = "KeyboardInterrupt" => exit_code = 130)
       /\ exit_code \in {0, 1, 130}

\* positions in the polled array of the active alerts named n
ActiveNamed(r, n) ==
  {i \in 1..Len(r.body) : /\ r.body[i].status.state = "active"
                          /\ "alertname" \in DOMAIN r.body[i].labels
                          /\ r.body[i].labels.alertname = n}

\* every expected pair is a label of the alert
AllPairsMatch(labels, expected) ==
  \A k \in 1..Len(expected) :
    expected[k][1] \in DOMAIN labels /\ labels[expected[k][1]] = expected[k][2]

\* C7: verifyAlertLabels returns false if no active alert has the name, false
\* if an expected value differs from or is absent in the alert's labels, true
\* only when every expected pair matches; with several active alerts of the
\* name only the first one decides.
C7_VerifyAlertLabels ==
  (Returned /\ op = "verify_alert_labels")
    => /\ polls = 1
       /\ (response.error # "none" => result = "False")
       /\ (response.error = "none" =>
             LET idx == ActiveNamed(response, alert_name)
             IN IF idx = {} THEN result = "False"
                ELSE LET first == CHOOSE i \in idx : \A j \in idx : i <= j
                     IN result = "True" <=> AllPairsMatch(response.body[first].labels, expected_labels))

C7_Witness ==
  /\ Returned /\ op = "verify_alert_labels" /\ result = "False"
  /\ response.error = "none"
  /\ Cardinality(ActiveNamed(response, alert_name)) = 2
  /\ \E i \in ActiveNamed(response, alert_name) :
       AllPairsMatch(response.body[i].labels, expected_labels)
  /\ Len(expected_labels) = 2

\* C8: getActiveAlerts returns exactly the entries whose status.state is
\* "active", in their order, and the empty sequence on a transport, HTTP-status
\* or parse error; a waitForAlert whose every poll fails goes on polling to
\* the timeout and returns false.
C8_GetActiveAlerts ==
  /\ (polls > 0 /\ response.error # "none" => alerts = <<>>)
  /\ (polls > 0 /\ response.error = "none" =>
        LET idx == {i \in 1..Len(response.body) : response.body[i].status.state = "active"}
        IN /\ Len(alerts) = Cardinality(idx)
           /\ \A i \in idx : alerts[Cardinality({j \in idx : j <= i})] = response.body[i])
  /\ (op = "wait_for_alert" /\ polls > 0 /\ failedPolls = polls =>
        /\ result \in {"none", "False", "KeyboardInterrupt"}
        /\ (pc = "done" /\ result = "False" => now - start_time >= timeout)
        /\ (result = "none" => pc \in {"wait_sleep", "wait_loop"}))

C8_Witness ==
  /\ polls > 0 /\ response.error = "none"
  /\ Len(response.body) = 2 /\ Len(alerts) = 1
  /\ response.body[1].status.state = "suppressed"

\* floor(durationMinutes * 60 / 15)
ExpectedPushes == (duration_minutes * SecondsPerMinute) \div PushInterval

\* pushes, their times and the sleeps between them in a loop that met no
\* transport error and no request latency
C9_PushCountInv ==
  (op \in InjectOps /\ ValidResource /\ duration_minutes > 0 /\ errors = 0 /\ lat = 0)
    => /\ pushes <= ExpectedPushes
       /\ reqs \subseteq {ThePushUrl}
       /\ (pushes > 0 => /\ lastPushAt < start_time + duration_minutes * SecondsPerMinute
                         /\ lastPushAt = start_time + PushInterval * (pushes - 1)
                         /\ reqs = {ThePushUrl})
       /\ (pc = "inject_loop" => sleeps = pushes)
       /\ (pc = "inject_sleep" => sleeps = pushes - 1)
       /\ (pc = "inject_loop" /\ pushes = ExpectedPushes => ~ENABLED InjectPush)
       /\ (Returned => pushes = ExpectedPushes /\ sleeps = pushes /\ result = "True")

\* C9: for durationMinutes > 0, with no transport error and requests that take
\* no time, an inject operation issues exactly floor(durationMinutes*60/15)
\* pushes, all to the per-service push path, none at or after the end time,
\* consecutive pushes one 15-second sleep apart, and then returns.
C9_PushCount ==
  /\ []C9_PushCountInv
  /\ (op \in InjectOps /\ ValidResource /\ duration_minutes > 0)
       ~> (pc = "done" /\ (errors = 0 /\ lat = 0 => pushes = ExpectedPushes))

C9_Witness ==
  /\ op = "inject_high_latency" /\ duration_minutes = MaxDuration
  /\ Returned /\ lat = 0 /\ errors = 0 /\ pushes = ExpectedPushes /\ badResponses > 0

\* C10: a push answered with a status other than 200/202 never aborts an
\* injection loop: the loop sleeps 15 seconds and goes on until the duration
\* has elapsed, so pushes and their timing do not depend on the statuses; in
\* injectHighErrorRate the running count equals the number of 200/202
\* responses received so far.
C10_BadStatusContinues ==
  (op \in InjectOps /\ ValidResource)
    => /\ (result = "False" => errors = 1)
       /\ (result = "True" => ~(now < end_time))
       /\ (errors = 0 /\ result # "KeyboardInterrupt" =>
             /\ now = start_time + PushInterval * sleeps + lat
             /\ pc \in {"inject_loop", "inject_sleep", "done"}
             /\ (pc = "inject_sleep" => sleeps = pushes - 1)
             /\ (pc # "inject_sleep" => sleeps = pushes))
       /\ okResponses + badResponses + errors = pushes
       /\ (op = "inject_high_error_rate" => metrics_injected = okResponses)

C10_Witness ==
  /\ op = "inject_high_error_rate" /\ Returned /\ result = "True"
  /\ badResponses >= 2 /\ okResponses >= 2 /\ metrics_injected = okResponses

====
